---- MODULE Spec2Model ----
(***************************************************************************)
(* Maze Escape: the maze grid (MazeMap.ts), the player (Player.ts) and the *)
(* game driver (Game.ts) as a state machine.                               *)
(*                                                                         *)
(* Glyphs of the layout literal are written with one ASCII character each: *)
(*   "F" = U+250C  "7" = U+2510  "J" = U+2518  "L" = U+2514                *)
(*   "I" = U+2502  "-" = U+2500  "o" = U+25CB  "*" = U+00B7                *)
(* every other character of the literal ('=', '.', ' ', 'X', 'E', 'B',     *)
(* '|') stands for itself.  A layout is the result of split('\n'): a       *)
(* sequence of rows, each a sequence of glyphs.                            *)
(***************************************************************************)
EXTENDS Integers, Sequences, FiniteSets, TLC

VARIABLES x, y, direction, requestedDirection, gameWon, gameStarted,
          frame, lastKey, layout, maze

vars == <<x, y, direction, requestedDirection, gameWon, gameStarted,
          frame, lastKey, layout, maze>>

\* Number of cells beyond the grid's edges that the model follows the player.
MaxOutside == 1

tileSize == 32

speed == 2

UP == "UP"

DOWN == "DOWN"

LEFT == "LEFT"

RIGHT == "RIGHT"

Direction == {UP, DOWN, LEFT, RIGHT}

\* event.key values: the four arrow keys and one key that is not an arrow.
Keys == {"ArrowUp", "ArrowDown", "ArrowLeft", "ArrowRight", "Other"}

mapString ==
    <<
       <<"F","-","-","-","-","-","-","-","-","-","-","-","-","7","F","-","-","-","-","-","-","-","-","-","-","-","-","7">>,
       <<"I","*","*","*","*","*","*","*","*","*","*","*","*","I","I","*","*","*","*","*","*","*","*","*","*","*","*","I">>,
       <<"I","*","F","-","-","7","*","F","-","-","-","7","*","I","I","*","F","-","-","-","7","*","F","-","-","7","*","I">>,
       <<"I",".","I"," "," ","I","*","I"," "," "," ","I","*","I","I","*","I"," "," "," ","I","*","I"," "," ","I","o","I">>,
       <<"I","*","L","-","-","J","*","L","-","-","-","J","*","L","J","*","L","-","-","-","J","*","L","-","-","J","*","I">>,
       <<"I","*","*","*","*","*","*","*","*","*","*","*","*","*","*","*","*","*","*","*","*","*","*","*","*","*","*","I">>,
       <<"I","*","F","-","-","7","*","F","7","*","F","-","-","-","-","-","-","7","*","F","7","*","F","-","-","7","*","I">>,
       <<"I","*","L","-","-","J","*","I","I","*","L","-","-","7","F","-","-","J","*","I","I","*","L","-","-","J","*","I">>,
       <<"I","*","*","*","*","*","*","I","I","*","*","*","*","I","I","*","*","*","*","I","I","*","*","*","*","*","*","I">>,
       <<"L","-","-","-","-","7","*","I","L","-","-","7"," ","I","I"," ","F","-","-","J","I","*","F","-","-","-","-","J">>,
       <<" "," "," "," "," ","I","*","I","F","-","-","J"," ","L","J"," ","L","-","-","7","I","*","I">>,
       <<" "," "," "," "," ","I","*","I","I"," "," "," "," ","B"," "," "," "," "," ","I","I","*","I">>,
       <<" "," "," "," "," ","I","*","I","I"," ","F","-","-","=","=","-","-","7"," ","I","I","*","I">>,
       <<"-","-","-","-","-","J","*","L","J"," ","I"," "," "," "," "," "," ","I"," ","L","J","*","L","-","-","-","-","-">>,
       <<"|","|"," "," "," "," ","*"," "," "," ","I"," "," "," "," "," "," ","I"," "," "," ","*"," "," "," "," "," ","|">>,
       <<"-","-","-","-","-","7","*","F","7"," ","I"," "," "," "," "," "," ","I"," ","F","7","*","F","-","-","-","-","-">>,
       <<" "," "," "," "," ","I","*","I","I"," ","L","-","-","-","-","-","-","J"," ","I","I","*","I">>,
       <<" "," "," "," "," ","I","*","I","I"," "," "," "," "," "," "," "," "," "," ","I","I","*","I">>,
       <<" "," "," "," "," ","I","*","I","I"," ","F","-","-","-","-","-","-","7"," ","I","I","*","I">>,
       <<"F","-","-","-","-","J","*","L","J"," ","L","-","-","7","F","-","-","J"," ","L","J","*","L","-","-","-","-","7">>,
       <<"I","*","*","*","*","*","*","*","*","*","*","*","*","I","I","*","*","*","*","*","*","*","*","*","*","*","*","I">>,
       <<"I","*","F","-","-","7","*","F","-","-","-","7","*","I","I","*","F","-","-","-","7","*","F","-","-","7","*","I">>,
       <<"I","*","L","-","7","I","*","L","-","-","-","J","*","L","J","*","L","-","-","-","J","*","I","F","-","J","*","I">>,
       <<"I","o","*","*","I","I","*","*","*","*","*","*","*","X"," ","*","*","*","*","*","*","*","I","I","*","*","E","I">>,
       <<"L","-","7","*","I","I","*","F","7","*","F","-","-","-","-","-","-","7","*","F","7","*","I","I","*","F","-","J">>,
       <<"F","-","J","*","L","J","*","I","I","*","L","-","-","7","F","-","-","J","*","I","I","*","L","J","*","L","-","7">>,
       <<"I","*","*","*","*","*","*","I","I","*","*","*","*","I","I","*","*","*","*","I","I","*","*","*","*","*","*","I">>,
       <<"I","*","F","-","-","-","-","J","L","-","-","7","*","I","I","*","F","-","-","J","L","-","-","-","-","7","*","I">>,
       <<"I","*","L","-","-","-","-","-","-","-","-","J","*","L","J","*","L","-","-","-","-","-","-","-","-","J","*","I">>,
       <<"I","*","*","*","*","*","*","*","*","*","*","*","*","*","*","*","*","*","*","*","*","*","*","*","*","*","*","I">>,
       <<"L","-","-","-","-","-","-","-","-","-","-","-","-","-","-","-","-","-","-","-","-","-","-","-","-","-","-","J">>
    >>

(***************************************************************************)
(* MazeMap                                                                 *)
(***************************************************************************)
WallGlyphs == {"F", "7", "J", "L", "I", "-", "="}

\* classify without '=' among the wall glyphs.
classifyNoEquals(ch) ==
    IF ch = "o" THEN 2
    ELSE IF ch = "*" THEN 0
    ELSE IF ch \in (WallGlyphs \ {"="}) THEN 1
    ELSE IF ch = "X" THEN 0
    ELSE IF ch = "E" THEN 3
    ELSE 0

\* The tile pushed for one character of the layout.
classify(ch) ==
    IF ch = "o" THEN 2
    ELSE IF ch = "*" THEN 0
    ELSE IF ch \in WallGlyphs THEN 1
    ELSE IF ch = "X" THEN 0
    ELSE IF ch = "E" THEN 3
    ELSE 0

\* Cells <<col, row>> (0-based) of a layout that hold glyph g.
GlyphCells(ms, g) ==
    {c \in UNION {{<<cx, ry>> : cx \in 0..(Len(ms[ry + 1]) - 1)} : ry \in 0..(Len(ms) - 1)} :
        ms[c[2] + 1][c[1] + 1] = g}

\* The cell of S the row-major scan visits last (its assignment survives).
LastCell(S) ==
    CHOOSE c \in S : \A d \in S : d[2] < c[2] \/ (d[2] = c[2] /\ d[1] <= c[1])

\* map[row][col] is defined (0-based indices as in the code).
HasRow(m, row) == row >= 0 /\ row < Len(m)

HasCell(m, col, row) == HasRow(m, row) /\ col >= 0 /\ col < Len(m[row + 1])

Cell(m, col, row) == m[row + 1][col + 1]

\* FallbackCells accepting Empty tiles only.
FallbackCellsEmptyOnly(m) ==
    {c \in UNION {{<<cx, ry>> : cx \in 0..(Len(m[1]) - 1)} : ry \in 0..(Len(m) - 1)} :
        /\ HasCell(m, c[1], c[2])
        /\ Cell(m, c[1], c[2]) = 0}

\* Cells the fallback scan may promote: Empty or Marker, col <= map[0].length-1.
FallbackCells(m) ==
    {c \in UNION {{<<cx, ry>> : cx \in 0..(Len(m[1]) - 1)} : ry \in 0..(Len(m) - 1)} :
        /\ HasCell(m, c[1], c[2])
        /\ Cell(m, c[1], c[2]) \in {0, 2}}

\* loadMap: classification, start/end coordinates, fallback exit.
loadMap(ms, ts) ==
    LET tiles  == [r \in 1..Len(ms) |-> [c \in 1..Len(ms[r]) |-> classify(ms[r][c])]]
        starts == GlyphCells(ms, "X")
        ends   == GlyphCells(ms, "E")
        sx     == IF starts = {} THEN 0 ELSE LastCell(starts)[1] * ts + ts \div 2
        sy     == IF starts = {} THEN 0 ELSE LastCell(starts)[2] * ts
        ex     == IF ends = {} THEN 0 ELSE LastCell(ends)[1] * ts + ts \div 2
        ey     == IF ends = {} THEN 0 ELSE LastCell(ends)[2] * ts
        fb     == FallbackCells(tiles)
        f      == LastCell(fb)
    IN  IF (ex = 0 /\ ey = 0) /\ fb # {}
        THEN [map    |-> [tiles EXCEPT ![f[2] + 1][f[1] + 1] = 3],
              startX |-> sx, startY |-> sy,
              endX   |-> f[1] * ts + ts \div 2, endY |-> f[2] * ts]
        ELSE [map |-> tiles, startX |-> sx, startY |-> sy, endX |-> ex, endY |-> ey]

mazeMap == loadMap(mapString, tileSize)

map == mazeMap.map

getStartPosition == [x |-> mazeMap.startX, y |-> mazeMap.startY]

\* wallCollisionValue with the UP branch reading the player's own row.
wallCollisionValueOwnRow(m, col, row, d) ==
    LET r == IF d = UP THEN row ELSE IF d = DOWN THEN row + 1 ELSE row
        c == IF d = LEFT THEN col - 1 ELSE IF d = RIGHT THEN col + 1 ELSE col
    IN  IF d \notin Direction THEN "false"
        ELSE IF ~HasRow(m, r) THEN "undefined"
        ELSE IF HasCell(m, c, r) /\ Cell(m, c, r) = 1 THEN "true"
        ELSE "false"

\* The value of wallCollision: "true", "false", or "undefined" when the
\* row looked at does not exist (undefined && ... is undefined).
wallCollisionValue(m, col, row, d) ==
    LET r == IF d = UP THEN row - 1 ELSE IF d = DOWN THEN row + 1 ELSE row
        c == IF d = LEFT THEN col - 1 ELSE IF d = RIGHT THEN col + 1 ELSE col
    IN  IF d \notin Direction THEN "false"
        ELSE IF ~HasRow(m, r) THEN "undefined"
        ELSE IF HasCell(m, c, r) /\ Cell(m, c, r) = 1 THEN "true"
        ELSE "false"

\* wallCollision as the conditions of Player.move see it (truthiness).
wallCollision(m, col, row, d) == wallCollisionValue(m, col, row, d) = "true"

\* isEndPosition comparing against the Marker tile.
isEndPositionMarker(m, col, row) ==
    IF row < 0 \/ col < 0 \/ row >= Len(m) \/ col >= Len(m[1]) THEN FALSE
    ELSE HasCell(m, col, row) /\ Cell(m, col, row) = 2

\* getTile: a defined number (a tile or the sentinel -1), or undefined when
\* the row exists but is shorter than the column asked for.
getTile(m, col, row) ==
    IF row < 0 \/ col < 0 \/ row >= Len(m) \/ col >= Len(m[1])
    THEN [defined |-> TRUE, value |-> -1]
    ELSE IF HasCell(m, col, row)
         THEN [defined |-> TRUE, value |-> Cell(m, col, row)]
         ELSE [defined |-> FALSE, value |-> 0]

isEndPosition(m, col, row) ==
    IF row < 0 \/ col < 0 \/ row >= Len(m) \/ col >= Len(m[1]) THEN FALSE
    ELSE HasCell(m, col, row) /\ Cell(m, col, row) = 3

(***************************************************************************)
(* Player                                                                  *)
(***************************************************************************)
\* Number.isInteger(v / tileSize)
isInteger(v) == v % tileSize = 0

\* isReversal without the LEFT-to-RIGHT case.
isReversalThreeCases(d, rd) ==
    \/ (d = DOWN /\ rd = UP)
    \/ (d = UP /\ rd = DOWN)
    \/ (d = RIGHT /\ rd = LEFT)

isReversal(d, rd) ==
    \/ (d = DOWN /\ rd = UP)
    \/ (d = UP /\ rd = DOWN)
    \/ (d = RIGHT /\ rd = LEFT)
    \/ (d = LEFT /\ rd = RIGHT)

\* arbitrate with the turn branch not testing tile alignment.
arbitrateNoAlignment(m, px, py, d, rd) ==
    LET col == px \div tileSize
        row == py \div tileSize
    IN  IF rd # d
        THEN IF isReversal(d, rd) THEN rd
             ELSE IF ~wallCollision(m, col, row, rd)
                  THEN rd
                  ELSE d
        ELSE d

\* Direction-change arbitration of Player.move: the direction in force
\* after it.  col and row are only used when both are integers.
arbitrate(m, px, py, d, rd) ==
    LET col == px \div tileSize
        row == py \div tileSize
    IN  IF rd # d
        THEN IF isReversal(d, rd) THEN rd
             ELSE IF isInteger(px) /\ isInteger(py) /\ ~wallCollision(m, col, row, rd)
                  THEN rd
                  ELSE d
        ELSE d

\* step blocking on a wall ahead without testing tile alignment.
stepBlockMidTile(m, px, py, d) ==
    LET col == px \div tileSize
        row == py \div tileSize
    IN  IF ~wallCollision(m, col, row, d)
        THEN IF d = UP THEN [x |-> px, y |-> py - speed]
             ELSE IF d = DOWN THEN [x |-> px, y |-> py + speed]
             ELSE IF d = LEFT THEN [x |-> px - speed, y |-> py]
             ELSE IF d = RIGHT THEN [x |-> px + speed, y |-> py]
             ELSE [x |-> px, y |-> py]
        ELSE [x |-> px, y |-> py]

\* step whose LEFT branch decrements y.
stepLeftWrongAxis(m, px, py, d) ==
    LET col == px \div tileSize
        row == py \div tileSize
    IN  IF ~(isInteger(px) /\ isInteger(py) /\ wallCollision(m, col, row, d))
        THEN IF d = UP THEN [x |-> px, y |-> py - speed]
             ELSE IF d = DOWN THEN [x |-> px, y |-> py + speed]
             ELSE IF d = LEFT THEN [x |-> px, y |-> py - speed]
             ELSE IF d = RIGHT THEN [x |-> px + speed, y |-> py]
             ELSE [x |-> px, y |-> py]
        ELSE [x |-> px, y |-> py]

\* step whose UP branch moves by speed + 1.
stepUnevenUp(m, px, py, d) ==
    LET col == px \div tileSize
        row == py \div tileSize
    IN  IF ~(isInteger(px) /\ isInteger(py) /\ wallCollision(m, col, row, d))
        THEN IF d = UP THEN [x |-> px, y |-> py - (speed + 1)]
             ELSE IF d = DOWN THEN [x |-> px, y |-> py + speed]
             ELSE IF d = LEFT THEN [x |-> px - speed, y |-> py]
             ELSE IF d = RIGHT THEN [x |-> px + speed, y |-> py]
             ELSE [x |-> px, y |-> py]
        ELSE [x |-> px, y |-> py]

\* Motion step of Player.move along direction d.
step(m, px, py, d) ==
    LET col == px \div tileSize
        row == py \div tileSize
    IN  IF ~(isInteger(px) /\ isInteger(py) /\ wallCollision(m, col, row, d))
        THEN IF d = UP THEN [x |-> px, y |-> py - speed]
             ELSE IF d = DOWN THEN [x |-> px, y |-> py + speed]
             ELSE IF d = LEFT THEN [x |-> px - speed, y |-> py]
             ELSE IF d = RIGHT THEN [x |-> px + speed, y |-> py]
             ELSE [x |-> px, y |-> py]
        ELSE [x |-> px, y |-> py]

\* Player.move: arbitration, then the motion step.
move(m, px, py, d, rd) ==
    LET nd == arbitrate(m, px, py, d, rd)
        p  == step(m, px, py, nd)
    IN  [x |-> p.x, y |-> p.y, direction |-> nd]

\* checkWinCondition that also accepts one diagonal neighbour.
checkWinConditionDiagonal(m, px, py) ==
    LET row == py \div tileSize
        col == px \div tileSize
    IN  \/ isEndPosition(m, col, row)
        \/ isEndPosition(m, col + 1, row)
        \/ isEndPosition(m, col - 1, row)
        \/ isEndPosition(m, col, row + 1)
        \/ isEndPosition(m, col, row - 1)
        \/ isEndPosition(m, col + 1, row + 1)

checkWinCondition(m, px, py) ==
    LET row == py \div tileSize
        col == px \div tileSize
    IN  \/ isEndPosition(m, col, row)
        \/ isEndPosition(m, col + 1, row)
        \/ isEndPosition(m, col - 1, row)
        \/ isEndPosition(m, col, row + 1)
        \/ isEndPosition(m, col, row - 1)

(***************************************************************************)
(* Game                                                                    *)
(***************************************************************************)
\* Largest row length and number of rows of the shipped grid.
gridCols == CHOOSE n \in {Len(map[r]) : r \in 1..Len(map)} :
                \A r \in 1..Len(map) : Len(map[r]) <= n

gridRows == Len(map)

\* The region of positions the model follows.
InBox(px, py) ==
    /\ px >= -(MaxOutside * tileSize)
    /\ px <= (gridCols - 1 + MaxOutside) * tileSize
    /\ py >= -(MaxOutside * tileSize)
    /\ py <= (gridRows - 1 + MaxOutside) * tileSize

KeyDirection(k) ==
    IF k = "ArrowUp" THEN UP
    ELSE IF k = "ArrowDown" THEN DOWN
    ELSE IF k = "ArrowLeft" THEN LEFT
    ELSE RIGHT

\* The fields of a MazeMap before its constructor has run loadMap.
NoMaze == [map |-> <<>>, startX |-> 0, startY |-> 0, endX |-> 0, endY |-> 0]

\* State after Game.ts has run to the first gameLoop call.  frame is the
\* parity of the number of gameLoop calls so far; lastKey is event.key of the
\* most recent arrow-key event ("NONE" before the first).  The game's maze
\* is the shipped one (mapString, map); layout and maze belong to the
\* construction of a MazeMap from an arbitrary layout and stay idle here.
Init ==
    /\ x = getStartPosition.x
    /\ y = getStartPosition.y
    /\ direction = RIGHT
    /\ requestedDirection = RIGHT
    /\ gameWon = FALSE
    /\ gameStarted = FALSE
    /\ frame = 0
    /\ lastKey = "NONE"
    /\ layout = <<>>
    /\ maze = NoMaze

\* keydown that keeps a pending request instead of overwriting it.
keydownKeepPending(k) ==
    /\ lastKey' = IF k = "Other" THEN lastKey ELSE k
    /\ IF gameWon
       THEN UNCHANGED <<requestedDirection, gameStarted>>
       ELSE /\ gameStarted' = TRUE
            /\ requestedDirection' =
                   IF k = "Other" \/ requestedDirection # direction
                   THEN requestedDirection ELSE KeyDirection(k)
    /\ UNCHANGED <<x, y, direction, gameWon, frame, layout, maze>>

\* keydown that also commits the direction at once.
keydownSetsDirection(k) ==
    /\ lastKey' = IF k = "Other" THEN lastKey ELSE k
    /\ IF gameWon
       THEN UNCHANGED <<requestedDirection, gameStarted, direction>>
       ELSE /\ gameStarted' = TRUE
            /\ requestedDirection' =
                   IF k = "Other" THEN requestedDirection ELSE KeyDirection(k)
            /\ direction' =
                   IF k = "Other" THEN direction ELSE KeyDirection(k)
    /\ UNCHANGED <<x, y, gameWon, frame, layout, maze>>

\* The keydown listener, for one event with event.key = k.
keydown(k) ==
    /\ lastKey' = IF k = "Other" THEN lastKey ELSE k
    /\ IF gameWon
       THEN UNCHANGED <<requestedDirection, gameStarted>>
       ELSE /\ gameStarted' = TRUE
            /\ requestedDirection' =
                   IF k = "Other" THEN requestedDirection ELSE KeyDirection(k)
    /\ UNCHANGED <<x, y, direction, gameWon, frame, layout, maze>>

KeyDown == \E k \in Keys : keydown(k)

\* gameLoop that calls player.move() without testing gameWon.
gameLoopNoGate ==
    /\ frame' = 1 - frame
    /\ LET p == move(map, x, y, direction, requestedDirection)
       IN  /\ InBox(p.x, p.y)
           /\ x' = p.x
           /\ y' = p.y
           /\ direction' = p.direction
           /\ gameWon' = (gameWon \/ checkWinCondition(map, p.x, p.y))
    /\ UNCHANGED <<requestedDirection, gameStarted, lastKey, layout, maze>>

\* gameLoop that evaluates the win check before player.move().
gameLoopCheckBeforeMove ==
    /\ frame' = 1 - frame
    /\ IF ~gameWon
       THEN LET p == move(map, x, y, direction, requestedDirection)
            IN  /\ InBox(p.x, p.y)
                /\ x' = p.x
                /\ y' = p.y
                /\ direction' = p.direction
                /\ gameWon' = checkWinCondition(map, x, y)
       ELSE UNCHANGED <<x, y, direction, gameWon>>
    /\ UNCHANGED <<requestedDirection, gameStarted, lastKey, layout, maze>>

\* One call of gameLoop (one animation frame).
gameLoop ==
    /\ frame' = 1 - frame
    /\ IF ~gameWon
       THEN LET p == move(map, x, y, direction, requestedDirection)
            IN  /\ InBox(p.x, p.y)
                /\ x' = p.x
                /\ y' = p.y
                /\ direction' = p.direction
                /\ gameWon' = checkWinCondition(map, p.x, p.y)
       ELSE UNCHANGED <<x, y, direction, gameWon>>
    /\ UNCHANGED <<requestedDirection, gameStarted, lastKey, layout, maze>>

Next == KeyDown \/ gameLoop

Spec == Init /\ [][Next]_vars

TypeOK ==
    /\ x \in Int /\ y \in Int
    /\ direction \in Direction
    /\ requestedDirection \in Direction
    /\ gameWon \in BOOLEAN
    /\ gameStarted \in BOOLEAN
    /\ frame \in {0, 1}
    /\ lastKey \in (Keys \ {"Other"}) \cup {"NONE"}
    /\ maze.map = <<>> \/ Len(maze.map) = Len(layout)

(***************************************************************************)
(* Win check at an arbitrary player position.  Player's constructor takes  *)
(* any (x, y); the driver then only evaluates the win check of gameLoop.   *)
(***************************************************************************)
\* Offsets inside a tile at which positions are sampled.
ProbeOffsets == {0, tileSize \div 2, tileSize - 1}

ProbeCoords(n) ==
    {c * tileSize + o : c \in (-MaxOutside)..(n - 1 + MaxOutside), o \in ProbeOffsets}

InitProbe ==
    /\ x \in ProbeCoords(gridCols)
    /\ y \in ProbeCoords(gridRows)
    /\ direction = RIGHT
    /\ requestedDirection = RIGHT
    /\ gameWon = FALSE
    /\ gameStarted = FALSE
    /\ frame = 0
    /\ lastKey = "NONE"
    /\ layout = <<>>
    /\ maze = NoMaze

\* if (player.checkWinCondition()) gameWon = true;
winCheck ==
    /\ frame = 0
    /\ frame' = 1
    /\ gameWon' = (gameWon \/ checkWinCondition(map, x, y))
    /\ UNCHANGED <<x, y, direction, requestedDirection, gameStarted, lastKey,
                   layout, maze>>

SpecProbe == InitProbe /\ [][winCheck]_vars

(***************************************************************************)
(* A player who drives the token from the start to the exit: every key is  *)
(* pressed as soon as the token is on the stretch where it is due, before  *)
(* the next frame.                                                         *)
(***************************************************************************)
\* Pixel coordinates of the route's corners.
RouteX1 == 21 * tileSize

RouteY0 == 23 * tileSize

RouteY1 == 20 * tileSize

RouteKey ==
    IF x = RouteX1 /\ y = RouteY0 THEN "ArrowUp"
    ELSE IF x = RouteX1 /\ y < RouteY0 THEN "ArrowRight"
    ELSE IF x > RouteX1 /\ y = RouteY1 THEN "ArrowDown"
    ELSE "Other"

KeyDue ==
    /\ ~gameWon
    /\ RouteKey # "Other"
    /\ KeyDirection(RouteKey) # requestedDirection

RouteKeyDown == KeyDue /\ keydown(RouteKey)

RouteFrame == ~KeyDue /\ gameLoop

NextRoute == RouteKeyDown \/ RouteFrame

SpecRoute == Init /\ [][NextRoute]_vars /\ WF_vars(NextRoute)

(***************************************************************************)
(* Construction of a MazeMap from an arbitrary layout: the layouts are all *)
(* small layouts over one glyph of each class, every one-row layout of one *)
(* or two glyphs of the whole table, and the shipped layout.               *)
(***************************************************************************)
\* Largest number of rows and of glyphs in a generated layout.
MaxRows == 3

MaxCells == 4

\* One glyph per tile class: wall, empty path, marker, start, end.
ClassGlyphs == {"-", "*", "o", "X", "E"}

\* Every glyph the shipped layout uses.
AllGlyphs == WallGlyphs \cup {"o", "*", "X", "E", " ", ".", "B", "|"}

RECURSIVE SumLen(_)
SumLen(s) == IF s = <<>> THEN 0 ELSE Head(s) + SumLen(Tail(s))

\* Row lengths of the generated layouts: 1..MaxRows rows, at most MaxCells
\* glyphs in all.
Shapes ==
    {s \in UNION {[1..r -> 0..MaxCells] : r \in 1..MaxRows} : SumLen(s) <= MaxCells}

\* The layout whose rows have the lengths of shape s and whose glyphs, read
\* row by row, are the sequence f.
SplitRows(f, s) ==
    [r \in 1..Len(s) |->
        [c \in 1..s[r] |-> f[SumLen(SubSeq(s, 1, r - 1)) + c]]]

\* Layouts of the whole glyph table: one row of one or two glyphs.
GlyphLayouts ==
    {<<<<g>>>> : g \in AllGlyphs} \cup {<<<<g, h>>>> : g \in AllGlyphs, h \in AllGlyphs}

InitLayout ==
    /\ \/ \E s \in Shapes : \E f \in [1..SumLen(s) -> ClassGlyphs] :
             layout = SplitRows(f, s)
       \/ layout \in GlyphLayouts
       \/ layout = mapString
    /\ maze = NoMaze
    /\ x = 0
    /\ y = 0
    /\ direction = RIGHT
    /\ requestedDirection = RIGHT
    /\ gameWon = FALSE
    /\ gameStarted = FALSE
    /\ frame = 0
    /\ lastKey = "NONE"

\* new MazeMap(tileSize, ctx) with mapString = layout.
construct ==
    /\ maze.map = <<>>
    /\ maze' = loadMap(layout, tileSize)
    /\ UNCHANGED <<x, y, direction, requestedDirection, gameWon, gameStarted,
                   frame, lastKey, layout>>

SpecLayout == InitLayout /\ [][construct]_vars

(***************************************************************************)
(* Properties                                                              *)
(***************************************************************************)
\* Grid cells <<col, row>> that the square [px, px+tileSize) x [py, py+tileSize) overlaps.
OverlappedCells(px, py) ==
    {<<c, r>> : c \in (px \div tileSize)..((px + tileSize - 1) \div tileSize),
                r \in (py \div tileSize)..((py + tileSize - 1) \div tileSize)}

IsWallCell(c) == HasCell(map, c[1], c[2]) /\ Cell(map, c[1], c[2]) = 1

\* C1: walls cannot be passed through: no grid cell that the player's
\* tileSize x tileSize square overlaps is a Wall tile.
C1_NoWallOverlap == \A c \in OverlappedCells(x, y) : ~IsWallCell(c)

\* C1 witness: the player stands tile-aligned, is not yet the winner, and the
\* cell ahead in its direction is a wall (the collision case has arisen).
C1_Witness ==
    /\ frame = 1
    /\ ~gameWon
    /\ isInteger(x) /\ isInteger(y)
    /\ wallCollision(map, x \div tileSize, y \div tileSize, direction)

\* The neighbour cell of <<col, row>> in direction d.
Neighbour(col, row, d) ==
    IF d = UP THEN <<col, row - 1>>
    ELSE IF d = DOWN THEN <<col, row + 1>>
    ELSE IF d = LEFT THEN <<col - 1, row>>
    ELSE <<col + 1, row>>

InGrid(c) == HasCell(map, c[1], c[2])

\* The cells whose tile the next Player.move asks wallCollision about.
QueriedCells ==
    LET col == x \div tileSize
        row == y \div tileSize
        nd  == arbitrate(map, x, y, direction, requestedDirection)
        aligned == isInteger(x) /\ isInteger(y)
    IN  (IF aligned /\ requestedDirection # direction
            /\ ~isReversal(direction, requestedDirection)
         THEN {Neighbour(col, row, requestedDirection)} ELSE {})
        \cup (IF aligned THEN {Neighbour(col, row, nd)} ELSE {})

\* C2: the shipped layout is enclosed by walls: the player's cell is always
\* inside the grid and Player.move never asks about a cell outside it.
C2_Enclosed ==
    /\ InGrid(<<x \div tileSize, y \div tileSize>>)
    /\ (~gameWon => \A c \in QueriedCells : InGrid(c))

\* A step that is one gameLoop call / one that runs Player.move.
IsTick == frame' # frame

MoveTick == IsTick /\ ~gameWon

Aligned == x % tileSize = 0 /\ y % tileSize = 0

Vertical(d) == d \in {UP, DOWN}

Perpendicular(d, e) == Vertical(d) # Vertical(e)

Opposite(d) ==
    IF d = UP THEN DOWN ELSE IF d = DOWN THEN UP
    ELSE IF d = LEFT THEN RIGHT ELSE LEFT

\* The neighbour of the player's cell in direction d is a Wall tile.
WallAhead(d) == IsWallCell(Neighbour(x \div tileSize, y \div tileSize, d))

\* C3: the win is latched and freezes the agent: once gameWon is true it
\* stays true and no tick or key event changes x, y, direction or
\* requestedDirection.
C3_WinLatched ==
    [][gameWon => /\ gameWon'
                  /\ x' = x /\ y' = y
                  /\ direction' = direction
                  /\ requestedDirection' = requestedDirection]_vars

\* C3 witness: the game is won, frames have run since, and an arrow key
\* pressed after the win was ignored.
C3_Witness ==
    /\ gameWon
    /\ lastKey = "ArrowLeft"
    /\ requestedDirection # LEFT
    /\ frame = 0

\* C4: turn gating: on a tick whose requested direction is perpendicular to
\* the direction, the direction becomes the requested one iff the position
\* is tile-aligned on both axes and the requested neighbour is not a wall.
C4_TurnGating ==
    [][(MoveTick /\ Perpendicular(direction, requestedDirection))
          => ((direction' = requestedDirection)
                <=> (Aligned /\ ~WallAhead(requestedDirection)))]_vars

\* C4 witness: a perpendicular request is pending at a tile-aligned position
\* whose requested neighbour is open while the cell ahead is a wall, so the
\* coming tick must turn.
C4_Witness ==
    /\ ~gameWon
    /\ direction = RIGHT /\ requestedDirection = UP
    /\ Aligned
    /\ ~WallAhead(UP) /\ WallAhead(RIGHT)
    /\ frame = 1

\* C5: reversal immediacy: when the requested direction is the opposite of
\* the direction at the start of a tick, the direction equals the requested
\* one after it, at every position and whatever tile lies that way.
C5_ReversalImmediate ==
    [][(IsTick /\ requestedDirection = Opposite(direction))
          => direction' = requestedDirection]_vars

\* C5 witness: a reversal is pending mid-tile.
C5_Witness ==
    /\ ~gameWon
    /\ direction = UP /\ requestedDirection = DOWN
    /\ ~Aligned
    /\ frame = 1

\* The cell beyond the tile boundary that a mid-tile player moving in
\* direction d reaches next.
BeyondNextBoundary(d) ==
    LET col == x \div tileSize
        row == y \div tileSize
    IN  IF d = UP THEN <<col, row - 1>>
        ELSE IF d = DOWN THEN <<col, row + 2>>
        ELSE IF d = LEFT THEN <<col - 1, row>>
        ELSE <<col + 2, row>>

\* C6: boundary block: a tick leaves the position unchanged iff the player
\* is tile-aligned and the cell ahead in the direction after arbitration is
\* a wall; a mid-tile player with a wall beyond the next boundary advances
\* by speed, does not pass that boundary and overlaps no wall.
C6_BoundaryBlock ==
    [][MoveTick =>
        /\ (x' = x /\ y' = y) <=> (Aligned /\ WallAhead(direction'))
        /\ (~Aligned /\ IsWallCell(BeyondNextBoundary(direction'))) =>
              /\ direction' = RIGHT =>
                    x' = x + speed /\ x' <= (x \div tileSize + 1) * tileSize
              /\ direction' = LEFT =>
                    x' = x - speed /\ x' >= (x \div tileSize) * tileSize
              /\ direction' = DOWN =>
                    y' = y + speed /\ y' <= (y \div tileSize + 1) * tileSize
              /\ direction' = UP =>
                    y' = y - speed /\ y' >= (y \div tileSize) * tileSize
              /\ \A c \in OverlappedCells(x', y') : ~IsWallCell(c)]_vars

\* C6 witness: the player has landed exactly on the tile boundary in front of
\* a wall (one step earlier it was mid-tile) and its direction points at it.
C6_Witness ==
    /\ ~gameWon
    /\ Aligned
    /\ direction = DOWN /\ requestedDirection = DOWN
    /\ WallAhead(DOWN)
    /\ frame = 0

\* C7: single-axis step: a step leaves (x, y) unchanged or changes exactly
\* one coordinate by exactly speed along the direction in force after it.
C7_SingleAxisStep ==
    [][\/ (x' = x /\ y' = y)
       \/ (MoveTick /\ direction' = UP /\ y' = y - speed /\ x' = x)
       \/ (MoveTick /\ direction' = DOWN /\ y' = y + speed /\ x' = x)
       \/ (MoveTick /\ direction' = LEFT /\ x' = x - speed /\ y' = y)
       \/ (MoveTick /\ direction' = RIGHT /\ x' = x + speed /\ y' = y)]_vars

\* C7 witness: the player has taken one step UP from a tile-aligned position.
C7_Witness ==
    /\ direction = UP
    /\ x % tileSize = 0
    /\ y % tileSize = tileSize - speed
    /\ ~gameWon

\* The tile at a cell, read from the grid without any bounds policy.
IsExitCell(c) == HasCell(map, c[1], c[2]) /\ Cell(map, c[1], c[2]) = 3

PlayerCell == <<x \div tileSize, y \div tileSize>>

OrthogonalCells(c) ==
    {<<c[1] + 1, c[2]>>, <<c[1] - 1, c[2]>>, <<c[1], c[2] + 1>>, <<c[1], c[2] - 1>>}

DiagonalCells(c) ==
    {<<c[1] + 1, c[2] + 1>>, <<c[1] - 1, c[2] + 1>>,
     <<c[1] + 1, c[2] - 1>>, <<c[1] - 1, c[2] - 1>>}

\* C8: win tolerance: at every position the win check reports true iff the
\* player's floored cell is the Exit tile or an orthogonal neighbour of it;
\* a cell only diagonally adjacent to the Exit reports false.
C8_WinTolerance ==
    frame = 1 =>
        /\ gameWon <=> (IsExitCell(PlayerCell)
                          \/ \E c \in OrthogonalCells(PlayerCell) : IsExitCell(c))
        /\ (\E c \in DiagonalCells(PlayerCell) : IsExitCell(c)) => ~gameWon

\* C8 witness: the win check has run at a position whose cell is diagonally
\* adjacent to the Exit tile.
C8_Witness ==
    /\ frame = 1
    /\ \E c \in DiagonalCells(PlayerCell) : IsExitCell(c)
    /\ x % tileSize # 0

\* C9: the exit can be reached: a player pressing the route's keys wins
\* after finitely many key events and ticks.
C9_ExitReachable == <>gameWon

\* C9 witness: the game is won next to the exit at the end of the route.
C9_Witness ==
    /\ gameWon
    /\ \E c \in OrthogonalCells(PlayerCell) : IsExitCell(c)
    /\ direction = DOWN

\* The direction an arrow key stands for.
ArrowOf(k) ==
    CASE k = "ArrowUp" -> UP
      [] k = "ArrowDown" -> DOWN
      [] k = "ArrowLeft" -> LEFT
      [] k = "ArrowRight" -> RIGHT
      [] k = "NONE" -> RIGHT

\* C10: last-write-wins input buffer: before the win requestedDirection is
\* the direction of the most recent arrow-key event (RIGHT if none), and no
\* tick modifies requestedDirection.
C10_LastWriteWins ==
    /\ [](~gameWon => requestedDirection = ArrowOf(lastKey))
    /\ [][IsTick => requestedDirection' = requestedDirection]_vars

\* C10 witness: the latest arrow key asks for a turn that cannot be honoured
\* yet (the player is mid-tile) and the request is buffered.
C10_Witness ==
    /\ ~gameWon
    /\ lastKey = "ArrowDown"
    /\ requestedDirection = DOWN
    /\ direction = LEFT
    /\ x % tileSize = tileSize \div 2
    /\ frame = 1

\* C11: changeDirection(d) sets requestedDirection to d and leaves direction,
\* x and y unchanged; direction changes only inside Player.move, and after a
\* move the direction is the old one or the request held at the tick's start.
C11_ChangeDirectionFrame ==
    [][/\ ~IsTick => /\ direction' = direction /\ x' = x /\ y' = y
                     /\ (~gameWon /\ lastKey' # "NONE")
                           => requestedDirection' = ArrowOf(lastKey')
       /\ IsTick => direction' \in {direction, requestedDirection}]_vars

\* C11 witness: an arrow key for a turn has been taken in mid-tile, frames
\* have run, and the direction is still the old one.
C11_Witness ==
    /\ ~gameWon
    /\ lastKey = "ArrowUp"
    /\ requestedDirection = UP
    /\ direction = RIGHT
    /\ x % tileSize # 0
    /\ frame = 1

\* C17: axis lock: while the direction is LEFT or RIGHT y is a multiple of
\* tileSize, while it is UP or DOWN x is one; so the player's square
\* overlaps at most two cells.
C17_AxisLock ==
    /\ direction \in {LEFT, RIGHT} => y % tileSize = 0
    /\ direction \in {UP, DOWN} => x % tileSize = 0
    /\ x % tileSize = 0 \/ y % tileSize = 0
    /\ Cardinality(OverlappedCells(x, y)) <= 2

\* C17 witness: the player is between two rows, moving DOWN, and a turn is
\* requested that has to wait.
C17_Witness ==
    /\ direction = DOWN
    /\ requestedDirection = LEFT
    /\ y % tileSize = tileSize \div 2
    /\ Cardinality(OverlappedCells(x, y)) = 2

\* The player's floored cell is the Exit tile or an orthogonal neighbour of it.
NearExit ==
    \/ IsExitCell(PlayerCell)
    \/ \E c \in OrthogonalCells(PlayerCell) : IsExitCell(c)

\* C18: win detection is never missed: between ticks, while gameWon is false
\* the player's floored cell is neither the Exit nor orthogonally adjacent to
\* it, and gameWon becomes true on the first tick whose move ends there.
C18_WinNeverMissed ==
    /\ [](~gameWon => ~NearExit)
    /\ [][MoveTick => (gameWon' <=> NearExit')]_vars

\* C18 witness: the game has just been won by arriving next to the exit cell
\* from the left, without standing on it.
C18_Witness ==
    /\ gameWon
    /\ ~IsExitCell(PlayerCell)
    /\ IsExitCell(<<PlayerCell[1] + 1, PlayerCell[2]>>)
    /\ direction = RIGHT

\* Distance from coordinate p to the tile boundary ahead when moving in
\* direction d (0 on a boundary).
RemainingToBoundary(p, d) ==
    IF d \in {RIGHT, DOWN} THEN (tileSize - (p % tileSize)) % tileSize
    ELSE p % tileSize

AxisCoordinate(px, py, d) == IF d \in {LEFT, RIGHT} THEN px ELSE py

\* C19: exact landing: x and y are always multiples of speed; a move that
\* starts mid-tile shortens the distance to the boundary ahead by exactly
\* speed, never stepping across it, and that distance is at most tileSize
\* (16 ticks of speed).
C19_ExactLanding ==
    /\ [](x % speed = 0 /\ y % speed = 0)
    /\ [][MoveTick =>
            LET d    == direction'
                rem  == RemainingToBoundary(AxisCoordinate(x, y, d), d)
                rem2 == RemainingToBoundary(AxisCoordinate(x', y', d), d)
            IN  /\ rem % speed = 0
                /\ rem \div speed <= tileSize \div speed
                /\ rem > 0 => rem2 = rem - speed]_vars

\* C19 witness: the player is one step short of the boundary ahead.
C19_Witness ==
    /\ ~gameWon
    /\ direction = LEFT
    /\ RemainingToBoundary(x, LEFT) = speed
    /\ frame = 1

(***************************************************************************)
(* Properties of a constructed MazeMap                                     *)
(***************************************************************************)
Built == maze.map # <<>>

\* Cells <<col, row>> of a sequence of rows.
CellsOf(rows) ==
    UNION {{<<c, r>> : c \in 0..(Len(rows[r + 1]) - 1)} : r \in 0..(Len(rows) - 1)}

At(rows, c) == rows[c[2] + 1][c[1] + 1]

\* The classification table.
TableTile(g) ==
    CASE g \in {"F", "7", "J", "L", "I", "-", "="} -> 1
      [] g = "o" -> 2
      [] g = "E" -> 3
      [] OTHER -> 0

\* The cell of S in the lowest row and, within it, the rightmost column: the
\* first one met scanning bottom-to-top and right-to-left, and the last one
\* met scanning top-to-bottom and left-to-right.
BottomRightMost(S) ==
    CHOOSE c \in S : \A d \in S : d[2] < c[2] \/ (d[2] = c[2] /\ d[1] <= c[1])

Anchor(c) == <<c[1] * tileSize + tileSize \div 2, c[2] * tileSize>>

ExitCells == {c \in CellsOf(maze.map) : At(maze.map, c) = 3}

EndGlyphCells == {c \in CellsOf(layout) : At(layout, c) = "E"}

StartGlyphCells == {c \in CellsOf(layout) : At(layout, c) = "X"}

\* Cells whose glyph the table makes Empty or Marker.
PassableCells == {c \in CellsOf(layout) : TableTile(At(layout, c)) \in {0, 2}}

\* The passable cells in columns below the first row's length.
PassableInFirstRowWidth == {c \in PassableCells : c[1] < Len(layout[1])}

Widest(rows) ==
    CHOOSE n \in {Len(rows[r]) : r \in 1..Len(rows)} :
        \A r \in 1..Len(rows) : Len(rows[r]) <= n

\* The cells queried: the grid and MaxOutside cells around it.
QueryCells ==
    {<<c, r>> : c \in (-MaxOutside)..(Widest(maze.map) - 1 + MaxOutside),
                r \in (-MaxOutside)..(Len(maze.map) - 1 + MaxOutside)}

\* C12: getTile is a total bounds-checked lookup: one of the four tile
\* values when 0 <= row < rows and 0 <= col < cols, the sentinel -1
\* otherwise, and never any other value.
C12_GetTileTotal ==
    Built =>
        \A q \in QueryCells :
            LET t == getTile(maze.map, q[1], q[2])
            IN  /\ t.defined
                /\ IF /\ 0 <= q[2] /\ q[2] < Len(maze.map)
                      /\ 0 <= q[1] /\ q[1] < Len(maze.map[1])
                   THEN t.value \in {0, 1, 2, 3}
                   ELSE t.value = -1

\* C13: collision symmetry: wallCollision(col, row, d) equals
\* (getTile of the neighbour in direction d == Wall) and is the value false
\* whenever the neighbour is outside the grid.
C13_CollisionSymmetry ==
    Built =>
        \A q \in QueryCells : \A d \in Direction :
            LET n == Neighbour(q[1], q[2], d)
                t == getTile(maze.map, n[1], n[2])
            IN  wallCollisionValue(maze.map, q[1], q[2], d)
                  = (IF t.defined /\ t.value = 1 THEN "true" ELSE "false")

\* C14 as stated: a layout without end glyph gets exactly one Exit, the first
\* Empty or Marker tile scanning rows bottom-up and each row from its last
\* column leftward, and the end coordinate is that tile's anchor.
C14_FallbackEveryLayout ==
    (Built /\ EndGlyphCells = {}) =>
        /\ PassableCells # {}
        /\ ExitCells = {BottomRightMost(PassableCells)}
        /\ <<maze.endX, maze.endY>> = Anchor(BottomRightMost(PassableCells))

\* C14: fallback exit: a layout without end glyph that has an Empty or Marker
\* tile in a column below the first row's length gets exactly one Exit, the
\* first such tile scanning rows bottom-up and columns from the first row's
\* last column leftward, with the end coordinate at its anchor; without such
\* a tile nothing is promoted and the end coordinate stays (0, 0).
C14_FallbackExit ==
    (Built /\ EndGlyphCells = {}) =>
        IF PassableInFirstRowWidth = {}
        THEN ExitCells = {} /\ maze.endX = 0 /\ maze.endY = 0
        ELSE /\ ExitCells = {BottomRightMost(PassableInFirstRowWidth)}
             /\ <<maze.endX, maze.endY>> = Anchor(BottomRightMost(PassableInFirstRowWidth))

\* C14 witness: two wall glyphs over two empty glyphs; the exit is row 1, col 1.
C14_Witness ==
    /\ layout = <<<<"-", "-">>, <<"*", "*">>>>
    /\ maze.map = <<<<1, 1>>, <<0, 3>>>>
    /\ maze.endX = tileSize + tileSize \div 2
    /\ maze.endY = tileSize

\* C15 as stated: every constructed maze has exactly one Exit tile, and
\* isEndPosition is true for that cell and for no other query.
C15_OneExitEveryLayout ==
    Built =>
        \E e \in CellsOf(maze.map) :
            /\ ExitCells = {e}
            /\ \A q \in QueryCells : isEndPosition(maze.map, q[1], q[2]) <=> (q = e)

\* C15: a maze built from a layout with exactly one end glyph, or with none
\* but an Empty or Marker tile in a column below the first row's length, has
\* exactly one Exit tile; isEndPosition is true for that cell if its column
\* is below the first row's length and false for every other query.
C15_OneExit ==
    (/\ Built
     /\ \/ Cardinality(EndGlyphCells) = 1
        \/ (EndGlyphCells = {} /\ PassableInFirstRowWidth # {}))
      => \E e \in CellsOf(maze.map) :
            /\ ExitCells = {e}
            /\ \A q \in QueryCells :
                  isEndPosition(maze.map, q[1], q[2])
                     <=> (q = e /\ e[1] < Len(maze.map[1]))

\* C15 witness: a ragged layout without end glyph whose second row is longer
\* than the first has got its one exit from the fallback scan.
C15_Witness ==
    /\ Built
    /\ EndGlyphCells = {}
    /\ Len(layout) = 2
    /\ Len(layout[2]) > Len(layout[1])
    /\ Cardinality(ExitCells) = 1
    /\ \E c \in CellsOf(layout) : At(layout, c) = "o"

\* The start and end coordinates are the anchors of the start and end glyph
\* (of the last one in reading order if there are several).
AnchorsRecorded ==
    /\ StartGlyphCells # {} =>
          <<maze.startX, maze.startY>> = Anchor(BottomRightMost(StartGlyphCells))
    /\ EndGlyphCells # {} =>
          <<maze.endX, maze.endY>> = Anchor(BottomRightMost(EndGlyphCells))

\* C16 as stated: every glyph's tile is the one the table gives.
C16_TableEveryTile ==
    Built =>
        /\ CellsOf(maze.map) = CellsOf(layout)
        /\ \A c \in CellsOf(layout) : At(maze.map, c) = TableTile(At(layout, c))
        /\ AnchorsRecorded

\* C16: glyph classification and anchors: every glyph's tile is the one the
\* table gives, except the one tile the fallback promotes to Exit when the
\* layout has no end glyph; the start and end coordinates are the anchors of
\* the start and end glyph.
C16_GlyphTable ==
    Built =>
        /\ CellsOf(maze.map) = CellsOf(layout)
        /\ \A c \in CellsOf(layout) :
              At(maze.map, c) =
                 (IF /\ EndGlyphCells = {}
                     /\ PassableInFirstRowWidth # {}
                     /\ c = BottomRightMost(PassableInFirstRowWidth)
                  THEN 3
                  ELSE TableTile(At(layout, c)))
        /\ AnchorsRecorded

\* C16 witness: the auxiliary wall glyph next to the start glyph, no end
\* glyph: Wall, then the start tile promoted to Exit, start anchor recorded.
C16_Witness ==
    /\ layout = <<<<"=", "X">>>>
    /\ maze.map = <<<<1, 3>>>>
    /\ maze.startX = tileSize + tileSize \div 2
    /\ maze.startY = 0
====
